---- MODULE Spec2Model ----
(***************************************************************************)
(* b3j0f.conf: the Configuration model (model/conf.py) and the apply pass  *)
(* of Configurable (configurable/core.py).                                 *)
(*                                                                         *)
(* Category objects live in a heap (`cats`), a Configuration is the        *)
(* insertion-ordered list of the Category objects it holds (`content`), so *)
(* that `self += cat` in Configuration.update shares the object as the     *)
(* code does.  Parameter, Category and the resolver are not part of the    *)
(* sources at hand (model/param.py, model/cat.py, model/base.py,           *)
(* parser/resolver); their operations are modelled from the specification  *)
(* and are marked so in the model map.                                     *)
(***************************************************************************)
EXTENDS Integers, Sequences, FiniteSets, TLC

\* ------------------------------------------------------------------ bounds
\* Operations of one behaviour.
MaxOps == 2

VARIABLES
    cats,      \* the Category objects: object id -> [name, params]
    content,   \* Configuration._content: conf -> its Category objects, in order
    attrs,     \* the attributes of the objects to configure
    foreigns,  \* Configurable.foreigns
    this,      \* the other fields of the configurable, once it is constructed
    configurables,  \* __configurables__ of the objects: the configurables, in order
    ret,       \* the last call: its arguments and what it returned or raised
    ops        \* the calls made so far

vars == <<cats, content, attrs, foreigns, this, configurables, ret, ops>>

\* ------------------------------------------------------------------ values
\* Python's None.
None == "None"
\* Configuration objects: self and the configuration merged into it.
ConfIds == {"A", "B"}
\* Category names; a name starting with SUB_CONF_PREFIX is a sub-configuration.
CNames == {"X", "Y", ":a"}
\* Parameter names.
PNames == {"a", "b"}
\* type(value).
TypeOf(v) == IF v = "'x'" THEN "str" ELSE IF v = None THEN "NoneType" ELSE "int"

\* ------------------------------------------------- Parameter (model/param.py)
\* Parameter(name, value=, svalue=, vtype=): a local parameter without error.
Parameter(name, value, svalue, vtype) ==
    [name |-> name, value |-> value, svalue |-> svalue, vtype |-> vtype,
     error |-> None, local |-> TRUE]

\* isinstance check of the value setter: None always fits.
ValueFits(param, value) ==
    value = None \/ param.vtype = None \/ TypeOf(value) = param.vtype

\* param.svalue = svalue
SetSvalue(param, svalue) == [param EXCEPT !.svalue = svalue]

\* param.value = value: raises TypeError, the value kept, when it does not fit.
SetValue(param, value) ==
    IF ValueFits(param, value)
    THEN [param |-> [param EXCEPT !.value = value], raised |-> None]
    ELSE [param |-> param, raised |-> "TypeError"]

\* param.copy(local=local)
Copy(param, local) == [param EXCEPT !.local = local]

\* The resolver on an expression: its value, or None when evaluation fails.
Eval(svalue) ==
    CASE svalue = "1" -> "1"
      [] svalue = "2" -> "2"
      [] svalue = "'x'" -> "'x'"
      [] OTHER -> None

\* Parameter.resolve(besteffort): the value is kept when there is no svalue;
\* else the svalue is evaluated and coerced to vtype.  A failure is recorded in
\* error under besteffort and raised otherwise.
ResolveParam(param, besteffort) ==
    IF param.svalue = None
    THEN [param |-> param, raised |-> None]
    ELSE LET v == Eval(param.svalue)
         IN  IF v # None /\ ValueFits(param, v)
             THEN [param |-> [param EXCEPT !.value = v, !.error = None],
                   raised |-> None]
             ELSE IF besteffort
                  THEN [param |-> [param EXCEPT !.error = "ResolutionError"],
                        raised |-> None]
                  ELSE [param |-> param, raised |-> "ResolutionError"]

\* --------------------------------------------------- Category (model/cat.py)
\* Category(name, *params)
Category(name, params) == [name |-> name, params |-> params]

\* pname in cat
HasParam(cat, pname) == \E i \in 1..Len(cat.params) : cat.params[i].name = pname

\* cat.getparams(param=param): the positions of the parameters of that name.
GetParams(cat, param) ==
    {i \in 1..Len(cat.params) : cat.params[i].name = param.name}

\* cat[pname]
ParamOf(cat, pname) ==
    cat.params[CHOOSE i \in 1..Len(cat.params) : cat.params[i].name = pname]

\* cat += param
AddParam(cat, param) ==
    IF HasParam(cat, param.name)
    THEN [cat EXCEPT !.params =
            [i \in 1..Len(cat.params) |->
                IF cat.params[i].name = param.name THEN param ELSE cat.params[i]]]
    ELSE [cat EXCEPT !.params = Append(cat.params, param)]

\* ------------------------------------------- Configuration (model/conf.py)
\* The categories of a configuration, in insertion order.
Cats(heap, seq) == [i \in 1..Len(seq) |-> heap[seq[i]]]

\* name in conf
HasCat(heap, seq, name) == \E i \in 1..Len(seq) : heap[seq[i]].name = name

\* conf._content[name]: the Category object of that name.
CatNamed(heap, seq, name) ==
    seq[CHOOSE i \in 1..Len(seq) : heap[seq[i]].name = name]

\* A TypeError of the value setter passes the try block and reaches the caller.
UpdateParamNoExcept(paramtoupdate, param) ==
    SetValue(SetSvalue(paramtoupdate, param.svalue), param.value)

\* The merge leaves the svalue of the parameter as it was.
UpdateParamKeepSvalue(paramtoupdate, param) ==
    [param |-> SetValue(paramtoupdate, param.value).param, raised |-> None]

\* Lines 133-139 of update: the svalue is overwritten, then the value, whose
\* TypeError is swallowed.
UpdateParam(paramtoupdate, param) ==
    LET r == SetValue(SetSvalue(paramtoupdate, param.svalue), param.value)
    IN  IF r.raised = "TypeError"
        THEN [param |-> r.param, raised |-> None]
        ELSE r

\* Lines 131-139: every parameter of paramstoupdate, in order.
RECURSIVE UpdateParamsToUpdate(_, _, _, _)
\* After parameter k was overwritten (result r).
UpdateParamsToUpdateNext(r, selfcat, paramstoupdate, param, k) ==
    IF r.raised # None
    THEN [cat |-> [selfcat EXCEPT !.params[k] = r.param], raised |-> r.raised]
    ELSE UpdateParamsToUpdate([selfcat EXCEPT !.params[k] = r.param],
                              paramstoupdate, param, k + 1)

UpdateParamsToUpdate(selfcat, paramstoupdate, param, k) ==
    IF k > Len(selfcat.params)
    THEN [cat |-> selfcat, raised |-> None]
    ELSE IF k \notin paramstoupdate
         THEN UpdateParamsToUpdate(selfcat, paramstoupdate, param, k + 1)
         ELSE UpdateParamsToUpdateNext(UpdateParam(selfcat.params[k], param),
                                       selfcat, paramstoupdate, param, k)

\* The parameter is appended without a look at the parameters of its name.
UpdateWithAppending(selfcat, param, paramstoupdate) ==
    [cat |-> [selfcat EXCEPT !.params = Append(@, Copy(param, FALSE))],
     raised |-> None]

\* Lines 127-143, one parameter of cat: the parameters of selfcat of its name
\* are overwritten; when there is none, a foreign copy is added.
UpdateWith(selfcat, param, paramstoupdate) ==
    IF paramstoupdate # {}
    THEN UpdateParamsToUpdate(selfcat, paramstoupdate, param, 1)
    ELSE [cat |-> AddParam(selfcat, Copy(param, FALSE)), raised |-> None]

\* Lines 125-143: the parameters of cat merged into selfcat, in cat's order.
RECURSIVE UpdateCategory(_, _, _)
\* After parameter i of cat (result r).
UpdateCategoryNext(r, params, i) ==
    IF r.raised # None THEN r ELSE UpdateCategory(r.cat, params, i + 1)

UpdateCategory(selfcat, params, i) ==
    IF i > Len(params)
    THEN [cat |-> selfcat, raised |-> None]
    ELSE UpdateCategoryNext(
            UpdateWith(selfcat, params[i], GetParams(selfcat, params[i])),
            params, i)

\* Lines 119-146: the categories of conf (otherseq), in order, merged into self.
RECURSIVE UpdateFrom(_, _, _, _)
\* After category j was merged into the Category object sid (result r).
UpdateFromNext(r, sid, heap, selfseq, otherseq, j) ==
    IF r.raised # None
    THEN [cats |-> [heap EXCEPT ![sid] = r.cat], content |-> selfseq,
          raised |-> r.raised]
    ELSE UpdateFrom([heap EXCEPT ![sid] = r.cat], selfseq, otherseq, j + 1)

\* Lines 121-143: category j of conf, whose name self holds as object sid.
UpdateInto(sid, heap, selfseq, otherseq, j) ==
    UpdateFromNext(UpdateCategory(heap[sid], heap[otherseq[j]].params, 1),
                   sid, heap, selfseq, otherseq, j)

UpdateFrom(heap, selfseq, otherseq, j) ==
    IF j > Len(otherseq)
    THEN [cats |-> heap, content |-> selfseq, raised |-> None]
    ELSE IF HasCat(heap, selfseq, heap[otherseq[j]].name)
         THEN UpdateInto(CatNamed(heap, selfseq, heap[otherseq[j]].name),
                         heap, selfseq, otherseq, j)
         ELSE UpdateFrom(heap, Append(selfseq, otherseq[j]), otherseq, j + 1)

\* Configuration.update(self, conf)
Update(heap, selfseq, otherseq) == UpdateFrom(heap, selfseq, otherseq, 1)

\* Lines 89-98 of pvalue: the loop over the categories cs, from position i.
\* category is the position of the category held so far, 0 for None;
\* categories the positions of the categories that contain pname.  Line 94
\* reads category.name before category is ever assigned: on None that is an
\* AttributeError.
RECURSIVE PValueLoop(_, _, _, _, _, _)
PValueLoop(cs, pname, cname, i, category, categories) ==
    IF i > Len(cs)
    THEN [raised |-> None, category |-> category, categories |-> categories]
    ELSE IF ~HasParam(cs[i], pname)
         THEN PValueLoop(cs, pname, cname, i + 1, category, categories)
         ELSE LET found == Append(categories, i)
              IN  IF category = 0
                  THEN [raised |-> "AttributeError", category |-> category,
                        categories |-> found]
                  ELSE IF cname = None \/ cname = cs[category].name
                       THEN IF cname # None
                            THEN [raised |-> None, category |-> i,
                                  categories |-> found]
                            ELSE PValueLoop(cs, pname, cname, i + 1, i, found)
                       ELSE PValueLoop(cs, pname, cname, i + 1, category, found)

\* categories[-history] of a Python list: the position, or 0 for an IndexError.
ListIndex(list, history) ==
    LET pos == IF history > 0 THEN Len(list) - history + 1 ELSE 1 - history
    IN  IF pos \in 1..Len(list) THEN pos ELSE 0

\* Configuration.pvalue(pname, cname, history) on the categories cs.
PValue(cs, pname, cname, history) ==
    LET l == PValueLoop(cs, pname, cname, 1, 0, <<>>)
    IN  IF l.raised # None
        THEN [raised |-> l.raised, value |-> None]
        ELSE IF l.category = 0
             THEN [raised |-> "NameError", value |-> None]
             ELSE IF history # 0 /\ ListIndex(l.categories, history) = 0
                  THEN [raised |-> "IndexError", value |-> None]
                  ELSE LET category == IF history # 0
                                       THEN l.categories[ListIndex(l.categories, history)]
                                       ELSE l.category
                       IN  [raised |-> None,
                            value |-> ParamOf(cs[category], pname).value]

\* The keyword parameters of Configuration.resolve (lines 49-51).
ResolveKeywords == {"configurable", "scope", "safe"}

\* Lines 63-68 of resolve: the parameters of category i, from position k.
\* calls lists the parameters param.resolve was called on.
RECURSIVE ResolveCategory(_, _, _, _, _)
\* After param.resolve on parameter k (result r).
ResolveCategoryNext(r, cat, i, k, besteffort, calls) ==
    IF r.raised # None
    THEN [cat |-> [cat EXCEPT !.params[k] = r.param], raised |-> r.raised,
          calls |-> Append(calls, <<i, k>>)]
    ELSE ResolveCategory([cat EXCEPT !.params[k] = r.param], i, k + 1,
                         besteffort, Append(calls, <<i, k>>))

ResolveCategory(cat, i, k, besteffort, calls) ==
    IF k > Len(cat.params)
    THEN [cat |-> cat, raised |-> None, calls |-> calls]
    ELSE ResolveCategoryNext(ResolveParam(cat.params[k], besteffort),
                             cat, i, k, besteffort, calls)

\* Lines 61-68 of resolve: the categories of the configuration, from position i.
RECURSIVE ResolveFrom(_, _, _, _, _)
\* After the parameters of category i (result r).
ResolveFromNext(r, heap, seq, i, besteffort) ==
    IF r.raised # None
    THEN [cats |-> [heap EXCEPT ![seq[i]] = r.cat], raised |-> r.raised,
          calls |-> r.calls]
    ELSE ResolveFrom([heap EXCEPT ![seq[i]] = r.cat], seq, i + 1, besteffort,
                     r.calls)

ResolveFrom(heap, seq, i, besteffort, calls) ==
    IF i > Len(seq)
    THEN [cats |-> heap, raised |-> None, calls |-> calls]
    ELSE ResolveFromNext(ResolveCategory(heap[seq[i]], i, 1, besteffort, calls),
                         heap, seq, i, besteffort)

\* conf.resolve(**keywords): a keyword the signature does not have is a
\* TypeError of the call.  resolve hands no besteffort to Parameter.resolve,
\* which then uses its default (default).
Resolve(heap, seq, keywords, default) ==
    IF ~(keywords \subseteq ResolveKeywords)
    THEN [cats |-> heap, raised |-> "TypeError", calls |-> <<>>]
    ELSE ResolveFrom(heap, seq, 1, default, <<>>)

\* ------------------------------------- Configurable (configurable/core.py)
\* The objects to configure.
Targets == {"t1", "t2"}
\* The attribute names setattr raises AttributeError for, per object.
ReadOnly == [t \in Targets |-> IF t = "t2" THEN {"b"} ELSE {}]
\* An attribute that was never set.
Unset == "unset"

\* '{0}{1}'.format(SUB_CONF_PREFIX, pname)
SubConfName(pname) == IF pname = "a" THEN ":a" ELSE ":b"

\* cname.startswith(SUB_CONF_PREFIX)
IsSubConf(cname) == cname \in {":a", ":b"}

\* The error of a parameter does not keep its value from the target.
SetParamIgnoringError(param, target, at, fgns) ==
    IF fgns \/ param.local
    THEN IF param.name \in ReadOnly[target]
         THEN [attrs |-> at, raised |-> "AttributeError", set |-> FALSE]
         ELSE [attrs |-> [at EXCEPT ![param.name] = param.value],
               raised |-> None, set |-> TRUE]
    ELSE [attrs |-> at, raised |-> None, set |-> FALSE]

\* An attribute already set by an earlier category is kept.
SetParamFirstWins(param, target, at, fgns) ==
    IF param.error # None \/ at[param.name] # Unset
    THEN [attrs |-> at, raised |-> None, set |-> FALSE]
    ELSE SetParamIgnoringError(param, target, at, fgns)

\* Lines 577-583 of _configure, one parameter: skipped when its error is set;
\* set on the target when it is local or foreigns is on.  setattr is not
\* guarded: its AttributeError leaves _configure.
SetParam(param, target, at, fgns) ==
    IF param.error # None
    THEN [attrs |-> at, raised |-> None, set |-> FALSE]
    ELSE IF fgns \/ param.local
         THEN IF param.name \in ReadOnly[target]
              THEN [attrs |-> at, raised |-> "AttributeError", set |-> FALSE]
              ELSE [attrs |-> [at EXCEPT ![param.name] = param.value],
                    raised |-> None, set |-> TRUE]
         ELSE [attrs |-> at, raised |-> None, set |-> FALSE]

\* Lines 575-583: the parameters of category i, from position k.  log lists
\* the assignments made: <<target, category, parameter>>.
RECURSIVE ConfigureCategory(_, _, _, _, _, _, _)
\* After setattr (result r) on parameter k: its AttributeError leaves the loop.
ConfigureCategoryNext(r, cat, i, k, target, fgns, log) ==
    IF r.raised # None
    THEN [attrs |-> r.attrs, raised |-> r.raised, log |-> log]
    ELSE ConfigureCategory(cat, i, k + 1, target, r.attrs, fgns,
                           IF r.set THEN Append(log, <<target, i, k>>) ELSE log)

ConfigureCategory(cat, i, k, target, at, fgns, log) ==
    IF k > Len(cat.params)
    THEN [attrs |-> at, raised |-> None, log |-> log]
    ELSE ConfigureCategoryNext(SetParam(cat.params[k], target, at, fgns),
                               cat, i, k, target, fgns, log)

\* Lines 567-583: the categories cs, from position i; sub_confs collects the
\* names of the sub-configurations, params the parameters of the others.
RECURSIVE ConfigureFrom(_, _, _, _, _, _, _, _)
\* After the parameters of category i (result r).
ConfigureFromNext(r, cs, i, target, fgns, sub_confs, params) ==
    IF r.raised # None
    THEN [attrs |-> r.attrs, raised |-> r.raised, log |-> r.log,
          sub_confs |-> sub_confs, params |-> params]
    ELSE ConfigureFrom(cs, i + 1, target, r.attrs, fgns, r.log, sub_confs, params)

ConfigureFrom(cs, i, target, at, fgns, log, sub_confs, params) ==
    IF i > Len(cs)
    THEN [attrs |-> at, raised |-> None, log |-> log,
          sub_confs |-> sub_confs, params |-> params]
    ELSE IF IsSubConf(cs[i].name)
         THEN ConfigureFrom(cs, i + 1, target, at, fgns, log,
                            Append(sub_confs, cs[i].name), params)
         ELSE ConfigureFromNext(ConfigureCategory(cs[i], i, 1, target, at, fgns, log),
                                cs, i, target, fgns, sub_confs, params \o cs[i].params)

\* Lines 585-591: sub_confs is a list of names, and line 591 indexes it with
\* the name of the sub-configuration: a TypeError for the first parameter that
\* has one.
SubConfs(sub_confs, params) ==
    IF \E k \in 1..Len(params), n \in 1..Len(sub_confs) :
            sub_confs[n] = SubConfName(params[k].name)
    THEN "TypeError"
    ELSE None

\* After the first loop of _configure (result r): the second loop.
ConfigureOneNext(r) ==
    IF r.raised # None
    THEN [attrs |-> r.attrs, raised |-> r.raised, log |-> r.log]
    ELSE [attrs |-> r.attrs, raised |-> SubConfs(r.sub_confs, r.params),
          log |-> r.log]

\* Configurable._configure(conf, toconfigure=target), lines 564-603.
ConfigureOne(cs, target, at, fgns, log) ==
    ConfigureOneNext(ConfigureFrom(cs, 1, target, at, fgns, log, <<>>, <<>>))

\* Configurable.configure(conf, toconfigure=targets), lines 518-534: every
\* object of the list in turn.
RECURSIVE Configure(_, _, _, _, _, _)
\* After _configure on object j (result r).
ConfigureNext(r, cs, targets, j, attributes, fgns) ==
    IF r.raised # None
    THEN [attrs |-> [attributes EXCEPT ![targets[j]] = r.attrs],
          raised |-> r.raised, log |-> r.log]
    ELSE Configure(cs, targets, j + 1, [attributes EXCEPT ![targets[j]] = r.attrs],
                   fgns, r.log)

Configure(cs, targets, j, attributes, fgns, log) ==
    IF j > Len(targets)
    THEN [attrs |-> attributes, raised |-> None, log |-> log]
    ELSE ConfigureNext(ConfigureOne(cs, targets[j], attributes[targets[j]], fgns, log),
                       cs, targets, j, attributes, fgns)

\* Lines 477-504 of getconf: answers are what driver.getconf returned, path by
\* path and driver by driver: None, or a configuration.  The first is the
\* result, the next ones are merged into it.
RECURSIVE GetConfFrom(_, _, _, _, _)
\* Line 493, result.update(conf=rscconf), once done (u).
GetConfFromNext(u, cont, answers, n, result) ==
    GetConfFrom(u.cats, [cont EXCEPT ![result] = u.content], answers, n + 1, result)

GetConfFrom(heap, cont, answers, n, result) ==
    IF n > Len(answers)
    THEN [cats |-> heap, content |-> cont, result |-> result]
    ELSE IF answers[n] = None
         THEN GetConfFrom(heap, cont, answers, n + 1, result)
         ELSE IF result = None
              THEN GetConfFrom(heap, cont, answers, n + 1, answers[n])
              ELSE GetConfFromNext(Update(heap, cont[result], cont[answers[n]]),
                                   cont, answers, n, result)

\* Configurable.getconf
GetConf(heap, cont, answers) == GetConfFrom(heap, cont, answers, 1, None)

\* Line 451 of applyconfiguration, once done (c), after getconf (g) and
\* resolve (r).
ApplyConfigured(c, r, g) ==
    [cats |-> r.cats, content |-> g.content, attrs |-> c.attrs,
     raised |-> c.raised, calls |-> r.calls, log |-> c.log]

\* Lines 450-451: after resolve (r) on the result of getconf (g).
ApplyResolved(r, g, target, attributes, fgns) ==
    IF r.raised # None
    THEN [cats |-> r.cats, content |-> g.content, attrs |-> attributes,
          raised |-> r.raised, calls |-> r.calls, log |-> <<>>]
    ELSE ApplyConfigured(
            Configure(Cats(r.cats, g.content[g.result]), <<target>>, 1,
                      attributes, fgns, <<>>),
            r, g)

\* Lines 445-451: after getconf (g).  Its result may be None, and resolve is
\* called with the keywords of lines 446-449.
ApplyGot(g, target, attributes, fgns, default) ==
    IF g.result = None
    THEN [cats |-> g.cats, content |-> g.content, attrs |-> attributes,
          raised |-> "AttributeError", calls |-> <<>>, log |-> <<>>]
    ELSE ApplyResolved(
            Resolve(g.cats, g.content[g.result],
                    {"configurable", "scope", "safe", "besteffort"}, default),
            g, target, attributes, fgns)

\* Lines 440-451 of applyconfiguration, one object: getconf, resolve,
\* configure.
ApplyOne(heap, cont, target, attributes, fgns, answers, default) ==
    ApplyGot(GetConf(heap, cont, answers), target, attributes, fgns, default)

\* Lines 430-438 of applyconfiguration: every object of the list in turn.
RECURSIVE ApplyConfiguration(_, _, _, _, _, _, _, _)
\* After object j (result r).
ApplyConfigurationNext(r, targets, j, fgns, answers, default) ==
    IF r.raised # None
    THEN r
    ELSE ApplyConfiguration(r.cats, r.content, targets, j + 1, r.attrs, fgns,
                            answers, default)

ApplyConfiguration(heap, cont, targets, j, attributes, fgns, answers, default) ==
    IF j > Len(targets)
    THEN [cats |-> heap, content |-> cont, attrs |-> attributes,
          raised |-> None, calls |-> <<>>, log |-> <<>>]
    ELSE ApplyConfigurationNext(
            ApplyOne(heap, cont, targets[j], attributes, fgns, answers, default),
            targets, j, fgns, answers, default)

\* ------------------------------- Configurable: construction and properties
\* The classes of configurables: Configurable, and the _Configurable of
\* test_parser_inheritance, whose clsconf adds the category PLOP.
Classes == {"Configurable", "_Configurable"}

\* The configuration a construction or a conf setter creates: clsconf(), or
\* Configuration().
Own == "C"

\* The fields before any construction.
NoConfigurable ==
    [built |-> FALSE, cls |-> "Configurable", conf |-> None, inheritedconf |-> TRUE,
     store |-> TRUE, autoconf |-> FALSE, toconfigure |-> <<>>]

\* Lines 346-358, clsconf(): the category CONFIGURABLE and its parameters.
\* That of _Configurable adds the category PLOP.
ClsConf(cls) ==
    LET configurable ==
            Category("CONFIGURABLE",
                     << Parameter("conf", None, None, "Configuration"),
                        Parameter("drivers", None, None, "tuple"),
                        Parameter("paths", None, None, "tuple"),
                        Parameter("inheritedconf", None, None, "bool"),
                        Parameter("store", None, None, "bool"),
                        Parameter("scope", None, None, "dict"),
                        Parameter("safe", None, None, "bool"),
                        Parameter("besteffort", None, None, "bool") >>)
    IN  IF cls = "_Configurable"
        THEN <<configurable, Category("PLOP", <<>>)>>
        ELSE <<configurable>>

\* The value is the configuration of the configurable, whatever inheritedconf.
SetConfNotInherited(heap, cont, cls, inheritedconf, value) ==
    IF value = None
    THEN [cats |-> heap, content |-> [cont EXCEPT ![Own] = <<>>], conf |-> Own]
    ELSE [cats |-> heap, content |-> cont, conf |-> value]

\* Lines 334-337 of the conf setter, once clsconf() is merged with value (u).
SetConfMerged(u, cont) ==
    [cats |-> u.cats, content |-> [cont EXCEPT ![Own] = u.content], conf |-> Own]

\* Lines 326-337 of the conf setter: value is None or a configuration.  With
\* inheritedconf the configuration is clsconf(), new Category objects, updated
\* with value; else it is value, a new Configuration() for None.
SetConf(heap, cont, cls, inheritedconf, value) ==
    IF inheritedconf
    THEN SetConfMerged(
            Update(heap \o ClsConf(cls),
                   [i \in 1..Len(ClsConf(cls)) |-> Len(heap) + i],
                   IF value = None THEN <<>> ELSE cont[value]),
            cont)
    ELSE IF value = None
         THEN [cats |-> heap, content |-> [cont EXCEPT ![Own] = <<>>], conf |-> Own]
         ELSE [cats |-> heap, content |-> cont, conf |-> value]

\* list.remove(x): without the first x of the list.
RECURSIVE Remove(_, _)
Remove(list, x) ==
    IF list = <<>> THEN <<>>
    ELSE IF Head(list) = x THEN Tail(list)
         ELSE <<Head(list)>> \o Remove(Tail(list), x)

\* The objects of a list.
Elements(list) == {list[i] : i \in 1..Len(list)}

\* Lines 276-290 of the toconfigure setter: excluded is the objects of value
\* that _toconfigure had not; self is removed from __configurables__ of each,
\* and the attribute deleted when nothing is left (the empty list here).
CleanReferences(cfgs, old, value) ==
    [t \in Targets |->
        IF t \in Elements(value) \ Elements(old)
        THEN Remove(cfgs[t], "self")
        ELSE cfgs[t]]

\* Lines 292-305: with store, self is appended to __configurables__ of every
\* object of value that has it not.
StoreReferences(cfgs, value, store) ==
    [t \in Targets |->
        IF store /\ t \in Elements(value) /\ "self" \notin Elements(cfgs[t])
        THEN Append(cfgs[t], "self")
        ELSE cfgs[t]]

\* The toconfigure setter, lines 265-307: __configurables__ of the objects.
SetToconfigure(cfgs, old, value, store) ==
    StoreReferences(CleanReferences(cfgs, old, value), value, store)

\* What a setter gives when it raised nothing and applied nothing.
NotApplied(heap, cont, attributes) ==
    [cats |-> heap, content |-> cont, attrs |-> attributes, raised |-> None,
     calls |-> <<>>, log |-> <<>>]

\* Lines 339-340 and 390-391: with autoconf, applyconfiguration() on the
\* objects of toconfigure.
AutoConf(heap, cont, autoconf, targets, attributes, fgns, answers, default) ==
    IF autoconf
    THEN ApplyConfiguration(heap, cont, targets, 1, attributes, fgns, answers,
                            default)
    ELSE NotApplied(heap, cont, attributes)

\* Line 255 of the confpath setter, once the conf setter is done (c).
SetConfPathSet(c) ==
    [cats |-> c.cats, content |-> c.content, conf |-> c.conf, raised |-> None]

\* Lines 248-255 of the confpath setter, after getconf (g): line 250 reads
\* conf.values() of its result, None when no driver answered, and conf stays
\* as it was; else the result is assigned to conf.
SetConfPathGot(g, cls, inheritedconf, conf) ==
    IF g.result = None
    THEN [cats |-> g.cats, content |-> g.content, conf |-> conf,
          raised |-> "AttributeError"]
    ELSE SetConfPathSet(SetConf(g.cats, g.content, cls, inheritedconf, g.result))

\* The confpath setter, lines 239-255; autoconf is off when __init__ calls it.
SetConfPath(heap, cont, cls, inheritedconf, conf, answers) ==
    SetConfPathGot(GetConf(heap, cont, answers), cls, inheritedconf, conf)

\* Lines 146-147 of __init__, after the conf setter (c): the confpath setter.
InitConfPath(c, cls, inheritedconf, answers) ==
    SetConfPath(c.cats, c.content, cls, inheritedconf, c.conf, answers)

\* Lines 131-154 of __init__ on the configurations: conf, then confpath.
InitConf(heap, cont, cls, inheritedconf, conf, answers) ==
    InitConfPath(SetConf(heap, cont, cls, inheritedconf, conf), cls,
                 inheritedconf, answers)

\* ------------------------------------------------------------ initial state
\* The arguments the parameters of the initial state are built from:
\* <<value, svalue, vtype>>.
ParameterArgs ==
    { <<"1", None, "int">>,       \* a literal
      <<"'x'", "'x'", "str">>,    \* a resolved expression of another type
      <<None, "bad", "int">> }    \* an expression that does not evaluate

\* The arguments of the parameters a best effort resolution failed on: the
\* expression that does not evaluate, and a literal overwritten by the svalue
\* of another type, its value kept.
FailedArgs == { <<None, "bad", "int">>, <<"1", "'x'", "int">> }

\* The parameters of a name as their constructor leaves them.
NewParameters(n) == {Parameter(n, a[1], a[2], a[3]) : a \in ParameterArgs}

\* The parameters of a name as merges and resolutions leave them: foreign or
\* local, with or without error.
UsedParameters(n) ==
    {[p EXCEPT !.local = l] : p \in NewParameters(n), l \in BOOLEAN}
    \cup {[Parameter(n, a[1], a[2], a[3]) EXCEPT !.local = l,
                                                 !.error = "ResolutionError"] :
            a \in FailedArgs, l \in BOOLEAN}

\* The shapes of the configurations, the categories in order, each <<name,
\* parameter names in order>>: of the two configurations of a merge,
MergeShapes ==
    { <<>>,
      << <<"X", <<"a">> >> >>,
      << <<"X", <<"a", "b">> >> >>,
      << <<"X", <<"a", "b">> >>, <<"Y", <<"a">> >> >>,
      << <<"Y", <<"b">> >>, <<"X", <<"a">> >> >> }

\* and of the configuration of a configurable, which may hold the
\* sub-configuration of a parameter.
UsedShapes ==
    { <<>>,
      << <<"X", <<"a">> >> >>,
      << <<"X", <<"a", "b">> >> >>,
      << <<"X", <<"a">> >>, <<"Y", <<"a">> >> >>,
      << <<"Y", <<"a">> >>, <<"X", <<"b">> >> >>,
      << <<"X", <<"a">> >>, <<":a", <<"b">> >> >>,
      << <<"X", <<"a">> >>, <<":a", <<"a">> >> >> }

\* The categories of a shape <<name, parameter names>>, their parameters
\* among params[n].
InitCategories(shape, params) ==
    LET universe == UNION {params[n] : n \in PNames}
    IN  {Category(shape[1], ps) :
            ps \in {s \in [1..Len(shape[2]) -> universe] :
                        \A i \in 1..Len(shape[2]) : s[i] \in params[shape[2][i]]}}

\* The configurations of the initial state: well formed (names are unique).
InitConfigurations(shapes, params) ==
    UNION {{cs \in [1..Len(shape) ->
                        UNION {InitCategories(shape[i], params) : i \in 1..Len(shape)}] :
                \A i \in 1..Len(shape) : cs[i] \in InitCategories(shape[i], params)} :
           shape \in shapes}

NoCall == [op |-> "none"]

\* Two configurations and their Category objects, one object per category.
InitWith(a, b) ==
    /\ cats = a \o b
    /\ content = [c \in ConfIds |->
                    IF c = "A" THEN [i \in 1..Len(a) |-> i]
                    ELSE [i \in 1..Len(b) |-> Len(a) + i]]
    /\ attrs = [t \in Targets |-> [n \in PNames |-> Unset]]
    /\ this = NoConfigurable
    /\ configurables = [t \in Targets |-> <<>>]
    /\ ret = NoCall
    /\ ops = 0

\* Two configurations as constructed; foreigns is DEFAULT_FOREIGNS.
Init ==
    /\ \E a, b \in InitConfigurations(MergeShapes, [n \in PNames |-> NewParameters(n)]) :
            InitWith(a, b)
    /\ foreigns = TRUE

\* The configuration of a configurable after merges and resolutions; no
\* resource configuration yet.
InitUsed ==
    /\ \E a \in InitConfigurations(UsedShapes, [n \in PNames |-> UsedParameters(n)]) :
            InitWith(a, <<>>)
    /\ foreigns \in BOOLEAN

\* The configurations given to a configurable and answered by its drivers:
\* their shapes and their parameters, literals.
ConfigurableShapes ==
    { <<>>,
      << <<"X", <<"a">> >> >>,
      << <<"X", <<"a">> >>, <<"Y", <<"a">> >> >> }

Literals(n) == {Parameter(n, "1", None, "int")}

\* No configurable yet: the configuration A a construction may be given and
\* the configuration B a driver may answer; another configurable may have
\* stored itself in an object.
InitConfigurable ==
    /\ \E a, b \in InitConfigurations(ConfigurableShapes, [n \in PNames |-> Literals(n)]) :
          /\ cats = a \o b
          /\ content = [c \in ConfIds \cup {Own} |->
                          IF c = "A" THEN [i \in 1..Len(a) |-> i]
                          ELSE IF c = "B" THEN [i \in 1..Len(b) |-> Len(a) + i]
                          ELSE <<>>]
    /\ attrs = [t \in Targets |-> [n \in PNames |-> Unset]]
    /\ foreigns = TRUE
    /\ this = NoConfigurable
    /\ \E others \in {<<>>, <<"other">>} :
          configurables = [t \in Targets |-> IF t = "t1" THEN others ELSE <<>>]
    /\ ret = NoCall
    /\ ops = 0

\* The lists of objects handed to configure and applyconfiguration.
TargetLists == {<<"t1">>, <<"t2">>, <<"t2", "t1">>}

\* What the drivers answer to getconf, over the paths.
DriverAnswers == {<<None>>, <<"A">>, <<"B", None, "A">>}

\* ------------------------------------------------------------------ actions
\* self.update(conf)
DoUpdate(self, conf) ==
    /\ ops < MaxOps
    /\ self # conf
    /\ LET r == Update(cats, content[self], content[conf])
       IN  /\ cats' = r.cats
           /\ content' = [content EXCEPT ![self] = r.content]
           /\ ret' = [op |-> "update", self |-> self, conf |-> conf,
                      raised |-> r.raised,
                      before |-> Cats(cats, content[self]),
                      other |-> Cats(cats, content[conf])]
    /\ ops' = ops + 1
    /\ UNCHANGED <<attrs, foreigns, this, configurables>>

\* conf.pvalue(pname, cname, history)
DoPValue(conf, pname, cname, history) ==
    /\ ops < MaxOps
    /\ LET r == PValue(Cats(cats, content[conf]), pname, cname, history)
       IN  ret' = [op |-> "pvalue", conf |-> conf, pname |-> pname,
                   cname |-> cname, history |-> history,
                   raised |-> r.raised, value |-> r.value]
    /\ ops' = ops + 1
    /\ UNCHANGED <<cats, content, attrs, foreigns, this, configurables>>

\* conf.resolve(configurable=, scope=, safe=).  default is the besteffort
\* Parameter.resolve uses when it is handed none.
DoResolve(conf, default) ==
    /\ ops < MaxOps
    /\ LET r == Resolve(cats, content[conf], ResolveKeywords, default)
       IN  /\ cats' = r.cats
           /\ ret' = [op |-> "resolve", conf |-> conf, keywords |-> ResolveKeywords,
                      default |-> default, raised |-> r.raised, calls |-> r.calls,
                      before |-> Cats(cats, content[conf])]
    /\ ops' = ops + 1
    /\ UNCHANGED <<content, attrs, foreigns, this, configurables>>

\* conf.resolve(configurable=, scope=, safe=, besteffort=besteffort)
DoResolveBesteffort(conf, besteffort, default) ==
    /\ ops < MaxOps
    /\ LET r == Resolve(cats, content[conf], ResolveKeywords \cup {"besteffort"},
                        default)
       IN  /\ cats' = r.cats
           /\ ret' = [op |-> "resolve", conf |-> conf,
                      keywords |-> ResolveKeywords \cup {"besteffort"},
                      besteffort |-> besteffort,
                      raised |-> r.raised, calls |-> r.calls,
                      before |-> Cats(cats, content[conf])]
    /\ ops' = ops + 1
    /\ UNCHANGED <<content, attrs, foreigns, this, configurables>>

\* configurable.configure(conf=conf, toconfigure=targets)
DoConfigure(conf, targets) ==
    /\ ops < MaxOps
    /\ LET r == Configure(Cats(cats, content[conf]), targets, 1, attrs, foreigns, <<>>)
       IN  /\ attrs' = r.attrs
           /\ ret' = [op |-> "configure", conf |-> conf, targets |-> targets,
                      raised |-> r.raised, log |-> r.log, before |-> attrs]
    /\ ops' = ops + 1
    /\ UNCHANGED <<cats, content, foreigns, this, configurables>>

\* configurable.applyconfiguration(toconfigure=targets, besteffort=besteffort)
DoApplyConfiguration(targets, besteffort, answers, default) ==
    /\ ops < MaxOps
    /\ LET r == ApplyConfiguration(cats, content, targets, 1, attrs, foreigns,
                                   answers, default)
       IN  /\ cats' = r.cats
           /\ content' = r.content
           /\ attrs' = r.attrs
           /\ ret' = [op |-> "applyconfiguration", targets |-> targets,
                      besteffort |-> besteffort, answers |-> answers,
                      raised |-> r.raised, calls |-> r.calls, log |-> r.log,
                      before |-> cats]
    /\ ops' = ops + 1
    /\ UNCHANGED <<foreigns, this, configurables>>

\* Configurable(conf=conf, inheritedconf=, store=, autoconf=, toconfigure=) of
\* class cls, lines 131-154; the configurable is there when nothing is raised.
DoInit(cls, conf, inheritedconf, store, autoconf, toconfigure, answers) ==
    /\ ops < MaxOps
    /\ this = NoConfigurable
    /\ LET r == InitConf(cats, content, cls, inheritedconf, conf, answers)
       IN  /\ cats' = r.cats
           /\ content' = r.content
           /\ this' = [built |-> r.raised = None, cls |-> cls, conf |-> r.conf,
                       inheritedconf |-> inheritedconf, store |-> store,
                       autoconf |-> (r.raised = None /\ autoconf),
                       toconfigure |-> toconfigure]
           /\ ret' = [op |-> "init", conf |-> conf, answers |-> answers,
                      raised |-> r.raised, applied |-> FALSE,
                      given |-> IF conf = None THEN <<>>
                                ELSE Cats(cats, content[conf])]
    /\ configurables' = SetToconfigure(configurables, <<>>, toconfigure, store)
    /\ ops' = ops + 1
    /\ UNCHANGED <<attrs, foreigns>>

\* configurable.conf = value
DoSetConf(value, answers, default) ==
    /\ ops < MaxOps
    /\ this.built
    /\ LET c == SetConf(cats, content, this.cls, this.inheritedconf, value)
           r == AutoConf(c.cats, c.content, this.autoconf, this.toconfigure,
                         attrs, foreigns, answers, default)
       IN  /\ cats' = r.cats
           /\ content' = r.content
           /\ attrs' = r.attrs
           /\ this' = [this EXCEPT !.conf = c.conf]
           /\ ret' = [op |-> "setconf", conf |-> value, answers |-> answers,
                      raised |-> r.raised, applied |-> this.autoconf,
                      given |-> IF value = None THEN <<>>
                                ELSE Cats(cats, content[value])]
    /\ ops' = ops + 1
    /\ UNCHANGED <<foreigns, configurables>>

\* configurable.paths = value
DoSetPaths(answers, default) ==
    /\ ops < MaxOps
    /\ this.built
    /\ LET r == AutoConf(cats, content, this.autoconf, this.toconfigure,
                         attrs, foreigns, answers, default)
       IN  /\ cats' = r.cats
           /\ content' = r.content
           /\ attrs' = r.attrs
           /\ ret' = [op |-> "setpaths", answers |-> answers,
                      raised |-> r.raised, applied |-> this.autoconf]
    /\ ops' = ops + 1
    /\ UNCHANGED <<foreigns, this, configurables>>

\* configurable.toconfigure = value
DoSetToconfigure(value) ==
    /\ ops < MaxOps
    /\ this.built
    /\ configurables' = SetToconfigure(configurables, this.toconfigure, value,
                                       this.store)
    /\ this' = [this EXCEPT !.toconfigure = value]
    /\ ret' = [op |-> "settoconfigure", value |-> value,
               before |-> this.toconfigure, raised |-> None, applied |-> FALSE]
    /\ ops' = ops + 1
    /\ UNCHANGED <<cats, content, attrs, foreigns>>

\* ----------------------------------------------------------- specifications
\* Merges of two configurations, either into the other.
NextUpdate == \E self, conf \in ConfIds : DoUpdate(self, conf)

SpecUpdate == Init /\ [][NextUpdate]_vars

\* Lookups in a configuration.
NextPValue ==
    \E pname \in PNames, cname \in CNames \cup {None}, history \in 0..1 :
        DoPValue("A", pname, cname, history)

SpecPValue == InitUsed /\ [][NextPValue]_vars

\* Resolution of the configuration of a configurable, and its application to
\* objects.
NextConfigure ==
    \/ \E default \in BOOLEAN : DoResolve("A", default)
    \/ \E targets \in TargetLists : DoConfigure("A", targets)

SpecConfigure == InitUsed /\ [][NextConfigure]_vars

\* The apply pass of a configurable: applyconfiguration, and the resolve it
\* relies on, called with its declared keywords or with besteffort too.
NextApply ==
    \/ \E default \in BOOLEAN : DoResolve("A", default)
    \/ \E besteffort, default \in BOOLEAN :
          DoResolveBesteffort("A", besteffort, default)
    \/ \E targets \in {<<>>, <<"t2", "t1">>}, besteffort, default \in BOOLEAN,
          answers \in DriverAnswers :
          DoApplyConfiguration(targets, besteffort, answers, default)

SpecApply == InitUsed /\ [][NextApply]_vars

\* The life of a configurable: its construction, then assignments to its
\* conf, paths and toconfigure.
NextConfigurable ==
    \/ \E cls \in Classes, conf \in {None, "A"},
          inheritedconf, store, autoconf \in BOOLEAN,
          toconfigure \in {<<>>, <<"t1">>, <<"t2", "t1">>},
          answers \in {<<None>>, <<"B">>} :
          DoInit(cls, conf, inheritedconf, store, autoconf, toconfigure, answers)
    \/ \E value \in {None, "A"}, answers \in {<<None>>, <<"B">>},
          default \in BOOLEAN :
          DoSetConf(value, answers, default)
    \/ \E answers \in {<<None>>, <<"B">>}, default \in BOOLEAN :
          DoSetPaths(answers, default)
    \/ \E value \in {<<>>, <<"t1">>, <<"t2">>, <<"t2", "t1">>} :
          DoSetToconfigure(value)

SpecConfigurable == InitConfigurable /\ [][NextConfigurable]_vars

\* ------------------------------------------------------- properties: update
\* The categories of the configuration the last update was called on, now.
Merged == Cats(cats, content[ret.self])

\* The category named name in the categories cs.
Named(cs, name) == cs[CHOOSE i \in 1..Len(cs) : cs[i].name = name]

\* The <<i, j, k, l>> such that category i of self and category j of conf had
\* the same name, and their parameters k and l too, when update was called.
Shared ==
    {s \in (1..Len(ret.before)) \X (1..Len(ret.other))
            \X (1..Cardinality(PNames)) \X (1..Cardinality(PNames)) :
        /\ ret.before[s[1]].name = ret.other[s[2]].name
        /\ s[3] <= Len(ret.before[s[1]].params)
        /\ s[4] <= Len(ret.other[s[2]].params)
        /\ ret.before[s[1]].params[s[3]].name = ret.other[s[2]].params[s[4]].name}

Mine(s) == ret.before[s[1]].params[s[3]]
Theirs(s) == ret.other[s[2]].params[s[4]]
Now(s) == ParamOf(Named(Merged, ret.before[s[1]].name), Mine(s).name)

\* Overwriting the value of the parameter of self raises a type error.
Mismatch(s) == ~ValueFits(Mine(s), Theirs(s).value)

\* C1: after A.update(B), every parameter present in both, in a category
\* present in both, has B's svalue in A and, when assigning the value raised
\* no type error, B's value.
C1_UpdateOverwrites ==
    ret.op = "update" =>
        \A s \in Shared :
            /\ Now(s).svalue = Theirs(s).svalue
            /\ ~Mismatch(s) => Now(s).value = Theirs(s).value

\* A merge that replaced both the svalue and the value of a shared parameter.
C1_Witness ==
    /\ ret.op = "update"
    /\ \E s \in Shared :
        /\ ~Mismatch(s)
        /\ Mine(s).svalue # Theirs(s).svalue
        /\ Mine(s).value # Theirs(s).value
        /\ Now(s).svalue = Theirs(s).svalue
        /\ Now(s).value = Theirs(s).value

\* C2: after A.update(B), every parameter of B that A had not, in a category
\* A had or in one it had not, is in A and is flagged foreign (local false).
C2_NewParametersForeign ==
    ret.op = "update" =>
        \A j \in 1..Len(ret.other) :
            \A l \in 1..Len(ret.other[j].params) :
                LET name == ret.other[j].name
                    pname == ret.other[j].params[l].name
                IN  ~(\E s \in Shared : s[2] = j /\ s[4] = l) =>
                        /\ \E i \in 1..Len(Merged) : Merged[i].name = name
                        /\ HasParam(Named(Merged, name), pname)
                        /\ ~ParamOf(Named(Merged, name), pname).local

\* C8: when overwriting a value raises a type error, the parameter keeps its
\* value and takes the incoming svalue, update does not raise, and the merge
\* goes on: every parameter of every category of B is in A with B's svalue.
C8_TypeErrorSwallowed ==
    (ret.op = "update" /\ \E s \in Shared : Mismatch(s)) =>
        /\ ret.raised = None
        /\ \A s \in Shared :
              Mismatch(s) => /\ Now(s).value = Mine(s).value
                             /\ Now(s).svalue = Theirs(s).svalue
        /\ \A j \in 1..Len(ret.other) :
              /\ \E i \in 1..Len(Merged) : Merged[i].name = ret.other[j].name
              /\ \A l \in 1..Len(ret.other[j].params) :
                    LET cat == Named(Merged, ret.other[j].name)
                        param == ret.other[j].params[l]
                    IN  /\ HasParam(cat, param.name)
                        /\ ParamOf(cat, param.name).svalue = param.svalue

\* A merge where the first parameter of the first category of B did not fit,
\* brought another svalue, and was followed by a parameter A had not and by a
\* category A had not.
C8_Witness ==
    /\ ret.op = "update"
    /\ ret.raised = None
    /\ \E s \in Shared :
        /\ Mismatch(s)
        /\ s[2] = 1 /\ s[4] = 1
        /\ Mine(s).svalue # Theirs(s).svalue
        /\ Now(s).value = Mine(s).value
        /\ Now(s).svalue = Theirs(s).svalue
        /\ Len(ret.other[1].params) > 1
        /\ ~HasParam(ret.before[s[1]], ret.other[1].params[2].name)
        /\ HasParam(Named(Merged, ret.other[1].name), ret.other[1].params[2].name)
        /\ Len(ret.other) > 1
        /\ \A i \in 1..Len(ret.before) : ret.before[i].name # ret.other[2].name
        /\ \E i \in 1..Len(Merged) : Merged[i].name = ret.other[2].name

\* ------------------------------------------------------- properties: pvalue
\* The categories of the configuration pvalue was called on; pvalue leaves
\* them as they were.
Asked == Cats(cats, content[ret.conf])

\* The positions of the categories holding the parameter asked for.
Holding == {i \in 1..Len(Asked) : HasParam(Asked[i], ret.pname)}

\* The n-th position from the end of a set of positions, 0 for the last.
FromEnd(S, n) == CHOOSE i \in S : Cardinality({k \in S : k > i}) = n

\* C3: pvalue(name) without a category name nor a history returns the value
\* name has in the last category that contains it.
C3_PValueLast ==
    (ret.op = "pvalue" /\ ret.cname = None /\ ret.history = 0 /\ Holding # {}) =>
        /\ ret.raised = None
        /\ ret.value = ParamOf(Asked[FromEnd(Holding, 0)], ret.pname).value

\* C4: pvalue(name, history=h) with h > 0 returns the value name has in the
\* category h places before the most recent of those that contain it:
\* history=1 gives the next to last.
C4_PValueHistory ==
    (/\ ret.op = "pvalue"
     /\ ret.cname = None
     /\ ret.history > 0
     /\ Cardinality(Holding) > ret.history) =>
        /\ ret.raised = None
        /\ ret.value = ParamOf(Asked[FromEnd(Holding, ret.history)],
                               ret.pname).value

\* C9: pvalue raises the name error when no category contains the parameter,
\* and when a category name is given that no category has.
C9_PValueNameError ==
    (/\ ret.op = "pvalue"
     /\ \/ Holding = {}
        \/ ret.cname # None /\ \A i \in 1..Len(Asked) : Asked[i].name # ret.cname) =>
        ret.raised = "NameError"

\* ---------------------------------------------------- properties: configure
\* The categories of the configuration configure was called with; configure
\* leaves them as they were.
Applied == Cats(cats, content[ret.conf])

\* The objects of the list given to configure.
Given == {ret.targets[j] : j \in 1..Len(ret.targets)}

\* The positions of the categories that are no sub-configuration where the
\* parameter named n is without error, and local unless foreigns is on.
Applicable(n) ==
    {i \in 1..Len(Applied) :
        /\ ~IsSubConf(Applied[i].name)
        /\ HasParam(Applied[i], n)
        /\ ParamOf(Applied[i], n).error = None
        /\ foreigns \/ ParamOf(Applied[i], n).local}

\* The positions of the categories that are no sub-configuration where the
\* parameter named n has its error set.
Failed(n) ==
    {i \in 1..Len(Applied) :
        /\ ~IsSubConf(Applied[i].name)
        /\ HasParam(Applied[i], n)
        /\ ParamOf(Applied[i], n).error # None}

\* C6: a parameter whose error is set is never applied, local or foreign: no
\* assignment of a configure pass is from such a parameter, and an attribute
\* only parameters with an error are named after is as it was before.
C6_ErrorNeverApplied ==
    ret.op = "configure" =>
        /\ \A e \in 1..Len(ret.log) :
              Applied[ret.log[e][2]].params[ret.log[e][3]].error = None
        /\ \A t \in Given, n \in PNames :
              (Failed(n) # {} /\ Applicable(n) = {}) =>
                    attrs[t][n] = ret.before[t][n]

\* A pass that set an attribute and left alone the one named after a
\* parameter with an error and a value, which it would else have set.
C6_Witness ==
    /\ ret.op = "configure"
    /\ ret.raised = None
    /\ ret.log # <<>>
    /\ \E t \in Given, n \in PNames :
        /\ n \notin ReadOnly[t]
        /\ Applicable(n) = {}
        /\ \E i \in Failed(n) :
              /\ ParamOf(Applied[i], n).value # None
              /\ foreigns \/ ParamOf(Applied[i], n).local
        /\ attrs[t][n] = Unset

\* C7: after configure(conf, target) completes, target.n is the value n has in
\* the last category, no sub-configuration, where it is without error and
\* local or foreigns is on.
C7_LastCategoryWins ==
    (ret.op = "configure" /\ ret.raised = None) =>
        \A t \in Given, n \in PNames :
            Applicable(n) # {} =>
                attrs[t][n] = ParamOf(Applied[FromEnd(Applicable(n), 0)], n).value

\* A completed pass over two categories that give different values to a name.
C7_Witness ==
    /\ ret.op = "configure"
    /\ ret.raised = None
    /\ \E t \in Given, n \in PNames :
        /\ Cardinality(Applicable(n)) > 1
        /\ ParamOf(Applied[FromEnd(Applicable(n), 0)], n).value
              # ParamOf(Applied[FromEnd(Applicable(n), 1)], n).value
        /\ attrs[t][n] = ParamOf(Applied[FromEnd(Applicable(n), 0)], n).value

\* C10: a parameter whose name cannot be set on the target is skipped and the
\* pass goes on: configure returns normally and every other applicable
\* parameter is assigned.  Stated for the configurations without a
\* sub-configuration of a parameter.
C10_UnsettableSkipped ==
    (/\ ret.op = "configure"
     /\ \A i, j \in 1..Len(Applied) :
            \A n \in PNames :
                ~(Applied[i].name = SubConfName(n) /\ ~IsSubConf(Applied[j].name)
                    /\ HasParam(Applied[j], n))) =>
        /\ ret.raised = None
        /\ \A t \in Given :
              \A n \in PNames \ ReadOnly[t] :
                Applicable(n) # {} =>
                  attrs[t][n] = ParamOf(Applied[FromEnd(Applicable(n), 0)], n).value

\* ------------------------------------------------------ properties: resolve
\* The <<category, parameter>> positions of the categories cs.
Positions(cs) ==
    {p \in (1..Len(cs)) \X (1..Cardinality(PNames)) : p[2] <= Len(cs[p[1]].params)}

\* p comes before q, or is q, in category then parameter order.
UpTo(p, q) == p[1] < q[1] \/ (p[1] = q[1] /\ p[2] <= q[2])

\* The svalue of the parameter does not evaluate to a value of its type.
Fails(param) ==
    /\ param.svalue # None
    /\ Eval(param.svalue) = None \/ ~ValueFits(param, Eval(param.svalue))

\* A pass over the categories, cs once it is over, that besteffort governed:
\* the parameters were resolved in order, all of them with besteffort, the
\* failures recorded, and without besteffort no further than the first that
\* fails, which is raised.
Governed(besteffort, cs, r) ==
    LET failing == {p \in Positions(cs) : Fails(cs[p[1]].params[p[2]])}
        resolved == {r.calls[m] : m \in 1..Len(r.calls)}
    IN  /\ \A m, n \in 1..Len(r.calls) : m < n => UpTo(r.calls[m], r.calls[n])
        /\ Cardinality(resolved) = Len(r.calls)
        /\ IF besteffort \/ failing = {}
           THEN /\ resolved = Positions(cs)
                /\ r.raised # "ResolutionError"
                /\ \A p \in failing : cs[p[1]].params[p[2]].error # None
           ELSE /\ r.raised = "ResolutionError"
                /\ \E f \in failing :
                      /\ \A p \in failing : UpTo(f, p)
                      /\ resolved = {p \in Positions(cs) : UpTo(p, f)}

\* The configuration getconf returns: the first a driver answers.
Answered ==
    ret.answers[CHOOSE n \in 1..Len(ret.answers) :
                    /\ ret.answers[n] # None
                    /\ \A m \in 1..(n - 1) : ret.answers[m] = None]

\* C5: with besteffort a resolution never raises for a parameter that fails:
\* the failure is recorded in its error and the others are resolved, in
\* category then parameter order; without, the first failure is raised and no
\* parameter after it is resolved.  The besteffort given to applyconfiguration
\* governs the pass.
C5_BesteffortGoverns ==
    /\ (ret.op = "resolve" /\ "besteffort" \in ret.keywords) =>
            Governed(ret.besteffort, Cats(cats, content[ret.conf]), ret)
    /\ (/\ ret.op = "applyconfiguration"
        /\ ret.targets # <<>>
        /\ \E n \in 1..Len(ret.answers) : ret.answers[n] # None) =>
            Governed(ret.besteffort, Cats(cats, content[Answered]), ret)

\* --------------------------------------------- properties: sub-configuration
\* The names of the parameters of the configuration applied that have a
\* sub-configuration: a category named SUB_CONF_PREFIX and their name.
Expandable ==
    {n \in PNames :
        /\ \E i \in 1..Len(Applied) : Applied[i].name = SubConfName(n)
        /\ \E j \in 1..Len(Applied) :
              ~IsSubConf(Applied[j].name) /\ HasParam(Applied[j], n)}

\* The sub-configuration of the parameter named n holds a parameter that has
\* this same sub-configuration: the chain leads back to the category.
Cyclic(n) ==
    /\ n \in Expandable
    /\ HasParam(Named(Applied, SubConfName(n)), n)

\* C11: for a configuration with a parameter p and a category named
\* SUB_CONF_PREFIX and p, _configure calls the value of p once with the
\* parameters of that category as keywords and configures the instance: the
\* pass, once its attributes are set, gets the category and returns normally.
C11_SubConfExpanded ==
    (/\ ret.op = "configure"
     /\ ret.raised # "AttributeError"
     /\ Expandable # {}) =>
        ret.raised = None

\* C12: the expansion of sub-configurations always ends, and on a chain that
\* leads back to an ancestor category it ends on a configuration error (the
\* Parameter.Error configure documents) reported for the cycle.
C12_CycleReported ==
    (/\ ret.op = "configure"
     /\ ret.raised # "AttributeError"
     /\ \E n \in PNames : Cyclic(n)) =>
        ret.raised = "Error"

\* ---------------------------------------------------- properties: ownership
\* The Category objects of a configuration.
Objects(c) == {content[c][i] : i \in 1..Len(content[c])}

\* C13: a Category is owned by one Configuration at a time: after A.update(B),
\* A and B share no Category object (nor, through one, a Parameter), also for
\* the categories A had not, so that a change of one leaves the other as it is.
C13_NoSharedCategory ==
    ret.op = "update" => Objects(ret.self) \cap Objects(ret.conf) = {}

\* The names of a sequence of categories or parameters are all different.
Unique(seq) == \A i, j \in 1..Len(seq) : seq[i].name = seq[j].name => i = j

\* C14: after any sequence of updates the category names of a configuration
\* are unique, and the parameter names of each category too; a merge keeps
\* the categories and the parameters there were at their places, and
\* overwrites them or appends new ones.
C14_NamesUnique ==
    /\ \A c \in ConfIds :
          /\ Unique(Cats(cats, content[c]))
          /\ \A i \in 1..Len(content[c]) : Unique(cats[content[c][i]].params)
    /\ ret.op = "update" =>
          /\ Len(Merged) >= Len(ret.before)
          /\ \A i \in 1..Len(ret.before) :
                /\ Merged[i].name = ret.before[i].name
                /\ Len(Merged[i].params) >= Len(ret.before[i].params)
                /\ \A k \in 1..Len(ret.before[i].params) :
                      Merged[i].params[k].name = ret.before[i].params[k].name

\* A merge that overwrote a parameter, appended one to a category there was
\* and appended a category.
C14_Witness ==
    /\ ret.op = "update"
    /\ Shared # {}
    /\ Len(Merged) > Len(ret.before)
    /\ \E i \in 1..Len(ret.before) :
          Len(Merged[i].params) > Len(ret.before[i].params)
    /\ Unique(Merged)
    /\ \A i \in 1..Len(Merged) : Unique(Merged[i].params)

\* ------------------------------------------------- properties: configurable
\* The categories of the configuration of the configurable.
Configured == Cats(cats, content[this.conf])

\* The names of the categories cs.
Names(cs) == {cs[i].name : i \in 1..Len(cs)}

\* The number of categories of cs that clsconf() of the configurable has not.
Added(cs) == Cardinality(Names(cs) \ Names(ClsConf(this.cls)))

\* C15: with inheritedconf, conf is clsconf() merged with the configuration
\* assigned: after construction and after every assignment to conf it holds
\* every category of clsconf(), and besides them those of the configuration
\* assigned, so that a class whose clsconf adds a category has one more.
C15_ClsConfInherited ==
    (this # NoConfigurable /\ this.inheritedconf) =>
        /\ \A i \in 1..Len(ClsConf(this.cls)) :
              /\ i <= Len(Configured)
              /\ Configured[i].name = ClsConf(this.cls)[i].name
        /\ ret.op = "setconf" =>
              Len(Configured) = Len(ClsConf(this.cls)) + Added(ret.given)
        /\ (ret.op = "init" /\ this.built) =>
              Len(Configured) = Len(ClsConf(this.cls))
                                  + Added(Cats(cats, content[Answered]))

\* A _Configurable that was constructed and then assigned a configuration.
C15_Witness ==
    /\ this.built
    /\ this.inheritedconf
    /\ this.cls = "_Configurable"
    /\ ret.op = "setconf"
    /\ ret.given # <<>>
    /\ Len(Configured) = Len(ClsConf("Configurable")) + 1 + Len(ret.given)

\* C16: with autoconf, an assignment to conf or to paths after construction
\* makes a complete apply pass, getconf then resolve then configure, on every
\* object of toconfigure before it returns; a construction makes none.
C16_AutoconfApplies ==
    /\ (ret.op \in {"setconf", "setpaths"} /\ this.autoconf) =>
            ret.applied /\ ret.raised = None
    /\ ret.op = "init" => ~ret.applied

\* How many times the configurable is in __configurables__ of the object t.
References(t) ==
    Cardinality({i \in 1..Len(configurables[t]) : configurables[t][i] = "self"})

\* C17: with store, after any assignments to toconfigure an object lists the
\* configurable once when it is in toconfigure and not at all when it is not
\* any more.
C17_BackReferences ==
    this.store =>
        \A t \in Targets :
            References(t) = IF t \in Elements(this.toconfigure) THEN 1 ELSE 0

\* C18: a configurable constructed with conf=X is there when the construction
\* returns, and its conf holds every category and parameter of X: merged over
\* clsconf() with inheritedconf, X itself without; also when no driver
\* answers a configuration.
C18_GivenConfUsed ==
    (ret.op = "init" /\ ret.conf # None) =>
        /\ ret.raised = None
        /\ this.built
        /\ ~this.inheritedconf => this.conf = ret.conf
        /\ \A i \in 1..Len(ret.given) :
              /\ ret.given[i].name \in Names(Configured)
              /\ \A k \in 1..Len(ret.given[i].params) :
                    HasParam(Named(Configured, ret.given[i].name),
                             ret.given[i].params[k].name)

====
